---- MODULE Spec2Model ----
(***************************************************************************)
(* Verification model of app.py: the unit / material converter, the        *)
(* coordinate parser and DXF export, the HEIC batch converter and the      *)
(* anonymous forum (articles, comments, similar articles).                 *)
(***************************************************************************)
EXTENDS Integers, Sequences, FiniteSets, TLC

VARIABLES
    cpc,        \* converter: "input", "forward" (one POST answered), "back" (two)
    form,       \* converter: the form fields of the POST being answered
    first,      \* converter: the form of the first POST of the pair
    result,     \* converter: ctx['result'] of the last POST (None on failure)
    dpc,        \* generate_dxf: position of the handler
    dform,      \* generate_dxf: the form fields coordinate_data and app_layer
    points,     \* generate_dxf: the parsed points
    layer_name, \* generate_dxf: the layer name after defaulting and trimming
    doc,        \* generate_dxf: the ezdxf document (layers, modelspace)
    di,         \* generate_dxf: index of the point the shape loop is at
    sent,       \* generate_dxf: the document handed to send_file
    ipc,        \* convert_file: position of the handler
    heic_files, \* convert_file: the uploaded files
    fi,         \* convert_file: index of the file the loop is at
    zf,         \* convert_file: the entries written to the archive
    converted_count, \* convert_file: the success counter
    HEIF_AVAILABLE,  \* convert_file: whether pillow_heif could be imported
    articles,   \* forum: rows of the articles table
    comments,   \* forum: rows of the comments table
    req,        \* forum: the request last handled
    resp        \* forum: what that request was answered with

convVars == <<cpc, form, first, result>>
dxfVars == <<dpc, dform, points, layer_name, doc, di, sent>>
imgVars == <<ipc, heic_files, fi, zf, converted_count, HEIF_AVAILABLE>>
forumVars == <<articles, comments, req, resp>>
vars == <<convVars, dxfVars, imgVars, forumVars>>

-----------------------------------------------------------------------------
(* Exact decimal arithmetic.  A magnitude is a big-endian sequence of      *)
(* decimal digits without leading zeros (<<>> is zero); the numbers of the *)
(* converter are counted in units of 10^-6, the resolution of round(x, 6). *)
(* The float products and quotients of the source are modelled by their    *)
(* exact rational values.                                                  *)

RECURSIVE DigitsOf(_)
DigitsOf(n) == IF n = 0 THEN <<>> ELSE Append(DigitsOf(n \div 10), n % 10)

RECURSIVE Zeros(_)
Zeros(e) == IF e = 0 THEN <<>> ELSE <<0>> \o Zeros(e - 1)

RECURSIVE Strip0(_)
Strip0(ds) == IF ds # <<>> /\ ds[1] = 0 THEN Strip0(Tail(ds)) ELSE ds

\* ds * s + c, for a small positive s
RECURSIVE MulCarry(_, _, _)
MulCarry(ds, s, c) ==
    IF ds = <<>> THEN DigitsOf(c)
    ELSE LET n == Len(ds)
             t == ds[n] * s + c
         IN  Append(MulCarry(SubSeq(ds, 1, n - 1), s, t \div 10), t % 10)

BigMul(ds, s) == IF ds = <<>> THEN <<>> ELSE MulCarry(ds, s, 0)

\* ds * (product of the small factors fs)
RECURSIVE BigMulAll(_, _)
BigMulAll(ds, fs) ==
    IF fs = <<>> THEN ds ELSE BigMulAll(BigMul(ds, Head(fs)), Tail(fs))

\* short division of ds by a small positive s: quotient digits and remainder
RECURSIVE DivStep(_, _)
DivStep(ds, s) ==
    IF ds = <<>> THEN [q |-> <<>>, r |-> 0]
    ELSE LET n == Len(ds)
             p == DivStep(SubSeq(ds, 1, n - 1), s)
             cur == p.r * 10 + ds[n]
         IN  [q |-> Append(p.q, cur \div s), r |-> cur % s]

\* floor(ds / product of fs), and whether the division was exact
RECURSIVE BigDivAll(_, _)
BigDivAll(ds, fs) ==
    IF fs = <<>> THEN [q |-> ds, exact |-> TRUE]
    ELSE LET d == DivStep(ds, Head(fs))
             rest == BigDivAll(Strip0(d.q), Tail(fs))
         IN  [q |-> rest.q, exact |-> rest.exact /\ d.r = 0]

RECURSIVE AddCarry(_, _, _)
AddCarry(a, b, c) ==
    IF a = <<>> /\ b = <<>> THEN DigitsOf(c)
    ELSE LET la == Len(a)
             lb == Len(b)
             da == IF la = 0 THEN 0 ELSE a[la]
             db == IF lb = 0 THEN 0 ELSE b[lb]
             t == da + db + c
         IN  Append(AddCarry(IF la = 0 THEN a ELSE SubSeq(a, 1, la - 1),
                             IF lb = 0 THEN b ELSE SubSeq(b, 1, lb - 1),
                             t \div 10),
                    t % 10)

BigAdd(a, b) == AddCarry(a, b, 0)

RECURSIVE LexLeq(_, _)
LexLeq(a, b) ==
    \/ a = <<>>
    \/ a[1] < b[1]
    \/ a[1] = b[1] /\ LexLeq(Tail(a), Tail(b))

BigLeq(a, b) == \/ Len(a) < Len(b)
                \/ Len(a) = Len(b) /\ LexLeq(a, b)

\* a signed number of 10^-6 units
Num(neg, mag) == [neg |-> neg /\ mag # <<>>, mag |-> mag]

-----------------------------------------------------------------------------
(* Unit / material converter (unit_converter_page).                        *)

MaxMant == 9       \* input values are m * 10^e * 10^-6 with m in 0..MaxMant
MaxExp == 6        \* and e in 0..MaxExp

\* a rational: (+/-) num / (product of den)
Rat(neg, num, den) == [neg |-> neg, num |-> num, den |-> den]

\* scale factors, as <<numerator, denominator>>
length_table == [m |-> <<1, 1>>, cm |-> <<1, 100>>, mm |-> <<1, 1000>>,
                 km |-> <<1000, 1>>, ft |-> <<3048, 10000>>, in |-> <<254, 10000>>]
weight_table == [kg |-> <<1, 1>>, g |-> <<1, 1000>>, t |-> <<1000, 1>>,
                 lb |-> <<45359237, 100000000>>]
volume_table == [m3 |-> <<1, 1>>, l |-> <<1, 1000>>, ml |-> <<1, 1000000>>]

\* density in kg / m3
MATERIALS == [soil_compacted |-> 1700, crushed_stone |-> 2000,
              concrete_rebar |-> 2400, concrete_plain |-> 2350,
              asphalt |-> 2300, steel |-> 7850]

\* float(request.form.get('value')): the value as a rational
ParseValue(v) == Rat(v.neg, v.mag, <<>>)

\* x * k and x / k for a scale factor k
RatMul(x, k) == Rat(x.neg, BigMul(x.num, k[1]), Append(x.den, k[2]))
RatDiv(x, k) == Rat(x.neg, BigMul(x.num, k[2]), Append(x.den, k[1]))

\* a convert that divides by the source scale and multiplies by the target's
convert_inverted(value, frm, to, table) ==
    LET base == RatMul(value, table[to])
    IN  RatDiv(base, table[frm])

convert(value, frm, to, table) ==
    LET base == RatMul(value, table[frm])
    IN  RatDiv(base, table[to])

\* a round that drops the digits after the sixth decimal
round6_truncating(x) == {Num(x.neg, BigDivAll(x.num, x.den).q)}

\* round(x, 6): the multiples of 10^-6 nearest to x.  A value halfway between
\* two multiples is not a float; the float next to it lies on either side, so
\* both neighbours are possible results.
round6(x) ==
    LET D == BigMulAll(<<1>>, x.den)
        lo == BigDivAll(x.num, x.den)
        hi == BigDivAll(BigAdd(BigMul(x.num, 2), D), <<2>> \o x.den)
    IN  IF hi.exact THEN {Num(x.neg, lo.q), Num(x.neg, hi.q)}
        ELSE {Num(x.neg, hi.q)}

None == [mode |-> "None"]

Categories == {"length", "weight", "volume"}

TableOf(category) ==
    IF category = "length" THEN length_table
    ELSE IF category = "weight" THEN weight_table
    ELSE volume_table

\* the possible values of ctx['result'] after a POST with form f
unit_converter_page(f) ==
    IF f.mode = "unit" THEN
        IF f.category \notin Categories THEN {None}
        ELSE LET table == TableOf(f.category) IN
             IF f.from_unit \notin DOMAIN table \/ f.to_unit \notin DOMAIN table
             THEN {None}
             ELSE {[mode |-> "unit", value |-> f.value, from |-> f.from_unit,
                    to |-> f.to_unit, out |-> o] :
                   o \in round6(convert(ParseValue(f.value), f.from_unit,
                                        f.to_unit, table))}
    ELSE
        IF f.material \notin DOMAIN MATERIALS THEN {None}
        ELSE IF f.vol_unit \notin DOMAIN volume_table
                \/ f.mass_unit \notin DOMAIN weight_table THEN {None}
        ELSE LET density == MATERIALS[f.material] IN
             IF f.direction = "vol_to_mass" THEN
                 LET vol_m3 == RatMul(ParseValue(f.value), volume_table[f.vol_unit])
                     mass_kg == RatMul(vol_m3, <<density, 1>>)
                     out_mass == RatDiv(mass_kg, weight_table[f.mass_unit])
                 IN  {[mode |-> "material", direction |-> f.direction,
                       value |-> f.value, from_unit |-> f.vol_unit,
                       to_unit |-> f.mass_unit, out |-> o, density |-> density] :
                      o \in round6(out_mass)}
             ELSE
                 LET mass_kg == RatMul(ParseValue(f.value), weight_table[f.mass_unit])
                     vol_m3 == RatDiv(mass_kg, <<density, 1>>)
                     out_vol == RatDiv(vol_m3, volume_table[f.vol_unit])
                 IN  {[mode |-> "material", direction |-> f.direction,
                       value |-> f.value, from_unit |-> f.mass_unit,
                       to_unit |-> f.vol_unit, out |-> o, density |-> density] :
                      o \in round6(out_vol)}

Values == {Num(s, IF m = 0 THEN <<>> ELSE DigitsOf(m) \o Zeros(e)) :
           m \in 0..MaxMant, e \in 0..MaxExp, s \in BOOLEAN}

UnitForm(category, value, frm, to) ==
    [mode |-> "unit", category |-> category, value |-> value,
     from_unit |-> frm, to_unit |-> to]

MaterialForm(direction, material, value, vol_unit, mass_unit) ==
    [mode |-> "material", direction |-> direction, material |-> material,
     value |-> value, vol_unit |-> vol_unit, mass_unit |-> mass_unit]

UnitForms(c) ==
    LET names == (IF c \in Categories THEN DOMAIN TableOf(c) ELSE {}) \cup {"yd"}
    IN  {UnitForm(c, v, a, b) : v \in Values, a \in names, b \in names}

Forms ==
    UNION {UnitForms(c) : c \in Categories \cup {"area"}}
    \cup
    {MaterialForm(d, k, v, vu, mu) :
        d \in {"vol_to_mass", "mass_to_vol"}, k \in DOMAIN MATERIALS \cup {"wood"},
        v \in Values, vu \in DOMAIN volume_table \cup {"gal"},
        mu \in DOMAIN weight_table}

\* the form that converts the displayed output back
Reverse(f, r) ==
    IF f.mode = "unit" THEN UnitForm(f.category, r.out, f.to_unit, f.from_unit)
    ELSE MaterialForm(IF f.direction = "vol_to_mass" THEN "mass_to_vol"
                      ELSE "vol_to_mass",
                      f.material, r.out, f.vol_unit, f.mass_unit)

\* a POST of the form
ConvPost ==
    /\ cpc = "input"
    /\ result' \in unit_converter_page(form)
    /\ first' = form
    /\ cpc' = "forward"
    /\ UNCHANGED <<form, dxfVars, imgVars, forumVars>>

\* a second POST, feeding the displayed output back with the units swapped
ConvPostBack ==
    /\ cpc = "forward"
    /\ result # None
    /\ form' = Reverse(form, result)
    /\ result' \in unit_converter_page(form')
    /\ cpc' = "back"
    /\ UNCHANGED <<first, dxfVars, imgVars, forumVars>>

ConvNext == ConvPost \/ ConvPostBack

-----------------------------------------------------------------------------
(* Properties of the converter.                                            *)

One == Rat(FALSE, <<1>>, <<>>)

\* the factor by which form f multiplies its value
Factor(f) ==
    IF f.mode = "unit"
    THEN RatDiv(RatMul(One, TableOf(f.category)[f.from_unit]),
                TableOf(f.category)[f.to_unit])
    ELSE IF f.direction = "vol_to_mass"
         THEN RatDiv(RatMul(RatMul(One, volume_table[f.vol_unit]),
                            <<MATERIALS[f.material], 1>>),
                     weight_table[f.mass_unit])
         ELSE RatDiv(RatDiv(RatMul(One, weight_table[f.mass_unit]),
                            <<MATERIALS[f.material], 1>>),
                     volume_table[f.vol_unit])

FactorAtLeastOne(f) == BigLeq(BigMulAll(<<1>>, Factor(f).den), Factor(f).num)

\* two magnitudes differ by at most one unit of 10^-6
WithinOne(a, b) == a = b \/ BigAdd(a, <<1>>) = b \/ BigAdd(b, <<1>>) = a

MaterialRoundTrip == cpc = "back" /\ form.mode = "material" /\ result # None
UnitRoundTrip == cpc = "back" /\ form.mode = "unit" /\ result # None

\* C1 as stated: for every material and pair of units, converting the rounded
\* output of one direction back in the other direction returns the value
\* first entered.
C1_AlwaysInverse == MaterialRoundTrip => result.out = first.value

\* C1 amended: the round trip returns the value first entered whenever the
\* first conversion's factor is at least 1 (its output unit is not coarser
\* than its input).
C1_InverseWhenNotCoarser ==
    (MaterialRoundTrip /\ FactorAtLeastOne(first)) => result.out = first.value

C1_Witness ==
    /\ MaterialRoundTrip
    /\ FactorAtLeastOne(first)
    /\ first.mass_unit = "lb"
    /\ first.value.mag = <<7>>
    /\ form.value # first.value
    /\ result.out = first.value

\* C2 as stated: for every category, pair of units and positive v, converting
\* a -> b and the rounded result b -> a yields v within the rounding
\* tolerance (one unit of the sixth decimal).
C2_RoundTripWithinTolerance ==
    (UnitRoundTrip /\ first.value.mag # <<>> /\ ~first.value.neg)
        => /\ ~result.out.neg
           /\ WithinOne(result.out.mag, first.value.mag)

\* C2 amended: the round trip yields v exactly whenever scale[a] >= scale[b].
C2_RoundTripWhenNotCoarser ==
    (UnitRoundTrip /\ first.value.mag # <<>> /\ ~first.value.neg
        /\ FactorAtLeastOne(first))
        => result.out = first.value

C2_Witness ==
    /\ UnitRoundTrip
    /\ FactorAtLeastOne(first)
    /\ first.from_unit = "m" /\ first.to_unit = "ft"
    /\ first.value = Num(FALSE, <<7>>)
    /\ form.value = Num(FALSE, <<2, 3>>)
    /\ result.out = first.value

-----------------------------------------------------------------------------
(* Strings are sequences of one-character strings.                         *)

Whitespace == {" ", "\n"}

RECURSIVE lstrip(_)
lstrip(s) == IF s # <<>> /\ Head(s) \in Whitespace THEN lstrip(Tail(s)) ELSE s

RECURSIVE rstrip(_)
rstrip(s) ==
    IF s # <<>> /\ s[Len(s)] \in Whitespace THEN rstrip(SubSeq(s, 1, Len(s) - 1))
    ELSE s

strip(s) == rstrip(lstrip(s))

RECURSIVE SplitAcc(_, _, _)
SplitAcc(s, sep, cur) ==
    IF s = <<>> THEN <<cur>>
    ELSE IF Head(s) = sep THEN <<cur>> \o SplitAcc(Tail(s), sep, <<>>)
    ELSE SplitAcc(Tail(s), sep, Append(cur, Head(s)))

\* s.split(sep)
split(s, sep) == SplitAcc(s, sep, <<>>)

\* s.splitlines(): no line for an empty text, none after a final line break
splitlines(s) ==
    LET p == split(s, "\n")
    IN  IF s = <<>> THEN <<>>
        ELSE IF p[Len(p)] = <<>> THEN SubSeq(p, 1, Len(p) - 1)
        ELSE p

\* sep.join(parts)
RECURSIVE join(_, _)
join(parts, sep) ==
    IF parts = <<>> THEN <<>>
    ELSE IF Len(parts) = 1 THEN parts[1]
    ELSE parts[1] \o <<sep>> \o join(Tail(parts), sep)

UpperChars == <<"A", "B", "C", "D", "E", "F", "G", "H", "I", "J", "K", "L", "M",
                "N", "O", "P", "Q", "R", "S", "T", "U", "V", "W", "X", "Y", "Z">>
LowerChars == <<"a", "b", "c", "d", "e", "f", "g", "h", "i", "j", "k", "l", "m",
                "n", "o", "p", "q", "r", "s", "t", "u", "v", "w", "x", "y", "z">>

LowerChar(c) ==
    IF \E i \in 1..Len(UpperChars) : UpperChars[i] = c
    THEN LowerChars[CHOOSE i \in 1..Len(UpperChars) : UpperChars[i] = c]
    ELSE c

\* s.lower()
lower(s) == [i \in 1..Len(s) |-> LowerChar(s[i])]

\* s.endswith(suffix)
endswith(s, suffix) ==
    /\ Len(s) >= Len(suffix)
    /\ SubSeq(s, Len(s) - Len(suffix) + 1, Len(s)) = suffix

\* needle in s
contains(s, needle) ==
    \E i \in 0..(Len(s) - Len(needle)) : SubSeq(s, i + 1, i + Len(needle)) = needle

DigitChars == <<"0", "1", "2", "3", "4", "5", "6", "7", "8", "9">>
Digits == {DigitChars[i] : i \in 1..Len(DigitChars)}
DigitVal(c) == (CHOOSE i \in 1..Len(DigitChars) : DigitChars[i] = c) - 1

AllDigits(s) == s # <<>> /\ \A i \in 1..Len(s) : s[i] \in Digits

RECURSIVE DecVal(_)
DecVal(s) ==
    IF s = <<>> THEN 0
    ELSE 10 * DecVal(SubSeq(s, 1, Len(s) - 1)) + DigitVal(s[Len(s)])

\* float(tok) on a trimmed token made of digits, signs, letters a b c L B,
\* commas and blanks: a float exactly when it is an optionally signed run of
\* digits
IsFloat(tok) ==
    \/ AllDigits(tok)
    \/ tok # <<>> /\ tok[1] \in {"+", "-"} /\ AllDigits(Tail(tok))

float(tok) ==
    IF tok[1] = "-" THEN 0 - DecVal(Tail(tok))
    ELSE IF tok[1] = "+" THEN DecVal(Tail(tok))
    ELSE DecVal(tok)

-----------------------------------------------------------------------------
(* Coordinate parser and DXF export (generate_dxf).                        *)

MaxText == 7       \* every coordinate text of at most MaxText characters

Skip == [skip |-> TRUE]
Point(label, x, y) == [skip |-> FALSE, label |-> label, x |-> x, y |-> y]

\* [p.strip() for p in line.split(',') if p.strip()]
Parts(line) ==
    LET ps == split(line, ",")
        trimmed == [i \in 1..Len(ps) |-> strip(ps[i])]
    IN  SelectSeq(trimmed, LAMBDA p : p # <<>>)

\* a body of the loop that reads the coordinates first and the label last
parse_line_label_last(raw_line) ==
    LET line == strip(raw_line)
        parts == Parts(line)
        n == Len(parts)
    IN  IF line = <<>> THEN Skip
        ELSE IF n < 2 THEN Skip
        ELSE IF IsFloat(parts[1]) /\ IsFloat(parts[2])
             THEN Point(join(SubSeq(parts, 3, n), ","), float(parts[1]), float(parts[2]))
             ELSE Skip

\* one pass of the loop body: Skip for `continue`, or the appended point
parse_line(raw_line) ==
    LET line == strip(raw_line)
        parts == Parts(line)
        n == Len(parts)
    IN  IF line = <<>> THEN Skip
        ELSE IF n = 1 THEN Skip
        ELSE IF n = 2 THEN
            IF IsFloat(parts[1]) /\ IsFloat(parts[2])
            THEN Point(<<>>, float(parts[1]), float(parts[2]))
            ELSE Skip                       \* ValueError, caught
        ELSE
            IF n < 2 THEN Skip              \* parts[-2]: IndexError, caught
            ELSE IF IsFloat(parts[n - 1]) /\ IsFloat(parts[n])
            THEN Point(join(SubSeq(parts, 1, n - 2), ","),
                       float(parts[n - 1]), float(parts[n]))
            ELSE Skip                       \* ValueError, caught

RECURSIVE ParseLines(_)
ParseLines(lines) ==
    IF lines = <<>> THEN <<>>
    ELSE LET pt == parse_line(Head(lines))
         IN  (IF pt.skip THEN <<>> ELSE <<[label |-> pt.label, x |-> pt.x, y |-> pt.y]>>)
             \o ParseLines(Tail(lines))

\* a loop that gives up at the first line it cannot parse
RECURSIVE ParseLinesUntilBad(_)
ParseLinesUntilBad(lines) ==
    IF lines = <<>> THEN <<>>
    ELSE LET pt == parse_line(Head(lines))
         IN  IF pt.skip THEN <<>>
             ELSE <<[label |-> pt.label, x |-> pt.x, y |-> pt.y]>>
                  \o ParseLinesUntilBad(Tail(lines))

parse_coordinates_until_bad(coord_text) == ParseLinesUntilBad(splitlines(coord_text))

\* the loop over coord_text.splitlines()
parse_coordinates(coord_text) == ParseLines(splitlines(coord_text))

POINTS == <<"P", "O", "I", "N", "T", "S">>

\* "1,2\n,\nabc,2\n3,4,LBL"
SampleMixed ==
    <<"1", ",", "2", "\n", ",", "\n", "a", "b", "c", ",", "2", "\n",
      "3", ",", "4", ",", "L", "B", "L">>

\* " 1 , -2 \n\n1,a\n a b ,c, +3,4 \n"
SampleBlanks ==
    <<" ", "1", " ", ",", " ", "-", "2", " ", "\n", "\n", "1", ",", "a", "\n",
      " ", "a", " ", "b", " ", ",", "c", ",", " ", "+", "3", ",", "4", " ", "\n">>

Alphabet == {"1", "a", ",", "\n"}

Texts == UNION {[1..k -> Alphabet] : k \in 0..MaxText}
         \cup {SampleMixed, SampleBlanks, <<" ", "\n", " ">>}

\* app_layer as posted: missing, the existing layer "0", a new layer
LayerInputs == {<<>>, <<" ", "0">>, <<"L", " ">>}

NoDoc == [layers |-> {}, msp |-> <<>>]

\* ezdxf.new(): the layers every new document has, an empty modelspace
NewDoc == [layers |-> {<<"0">>, <<"D", "e", "f", "p", "o", "i", "n", "t", "s">>},
           msp |-> <<>>]

PointEntity(x, y, layer) == [type |-> "POINT", at |-> <<x, y>>, layer |-> layer]
TextEntity(text, layer, placed) ==
    [type |-> "TEXT", text |-> text, layer |-> layer, placed |-> placed]

\* the request arrives: trimming, defaults, the parsing loop, the two
\* validation redirects
DxfRequest ==
    /\ dpc = "idle"
    /\ \E text \in Texts, lay \in LayerInputs :
        LET coord_text == strip(text)
            parsed == parse_coordinates(coord_text)
        IN  /\ dform' = [coordinate_data |-> text, app_layer |-> lay]
            /\ layer_name' = strip(IF lay = <<>> THEN POINTS ELSE lay)
            /\ IF coord_text = <<>>
               THEN points' = <<>> /\ dpc' = "redirect"
               ELSE /\ points' = parsed
                    /\ dpc' = IF parsed = <<>> THEN "redirect" ELSE "new_doc"
    /\ UNCHANGED <<doc, di, sent, convVars, imgVars, forumVars>>

\* doc = ezdxf.new(dxfversion='R2010')
DxfNewDoc ==
    /\ dpc = "new_doc"
    /\ \/ doc' = NewDoc /\ dpc' = "layer"
       \/ doc' = doc /\ dpc' = "failed"
    /\ UNCHANGED <<dform, points, layer_name, di, sent, convVars, imgVars, forumVars>>

\* a layer step that never creates the layer
DxfLayer_never_creating ==
    /\ dpc = "layer"
    /\ doc' = doc /\ dpc' = "shapes" /\ di' = 1
    /\ UNCHANGED <<dform, points, layer_name, sent, convVars, imgVars, forumVars>>

\* if layer_name not in doc.layers: doc.layers.new(name=layer_name)
DxfLayer ==
    /\ dpc = "layer"
    /\ IF layer_name \in doc.layers
       THEN doc' = doc /\ dpc' = "shapes" /\ di' = 1
       ELSE \/ /\ doc' = [doc EXCEPT !.layers = @ \cup {layer_name}]
               /\ dpc' = "shapes" /\ di' = 1
            \/ doc' = doc /\ dpc' = "failed" /\ di' = di
    /\ UNCHANGED <<dform, points, layer_name, sent, convVars, imgVars, forumVars>>

\* one pass of `for pt in points`; any of the library calls may raise
DxfShape ==
    /\ dpc = "shapes"
    /\ di <= Len(points)
    /\ LET pt == points[di]
           marker == PointEntity(pt.x, pt.y, layer_name)
       IN  \/ doc' = doc /\ dpc' = "failed"                      \* add_point raises
           \/ /\ pt.label = <<>>
              /\ doc' = [doc EXCEPT !.msp = Append(@, marker)]
              /\ dpc' = "shapes"
           \/ /\ pt.label # <<>>
              /\ \/ /\ doc' = [doc EXCEPT !.msp = Append(@, marker)]
                    /\ dpc' = "failed"                           \* add_text raises
                 \/ /\ doc' = [doc EXCEPT !.msp =
                                 @ \o <<marker, TextEntity(pt.label, layer_name, FALSE)>>]
                    /\ dpc' = "failed"                           \* set_pos raises
                 \/ /\ doc' = [doc EXCEPT !.msp =
                                 @ \o <<marker, TextEntity(pt.label, layer_name, TRUE)>>]
                    /\ dpc' = "shapes"
    /\ di' = IF dpc' = "shapes" THEN di + 1 ELSE di
    /\ UNCHANGED <<dform, points, layer_name, sent, convVars, imgVars, forumVars>>

\* doc.saveas(buf); send_file(buf, ...)
DxfSave ==
    /\ dpc = "shapes"
    /\ di > Len(points)
    /\ \/ sent' = doc /\ dpc' = "sent"
       \/ sent' = sent /\ dpc' = "failed"
    /\ UNCHANGED <<dform, points, layer_name, doc, di, convVars, imgVars, forumVars>>

DxfNext == DxfRequest \/ DxfNewDoc \/ DxfLayer \/ DxfShape \/ DxfSave

-----------------------------------------------------------------------------
(* HEIC batch converter (convert_file).                                    *)

MaxFiles == 3      \* at most MaxFiles uploaded files in a request

\* os.path.splitext(name)[0] for a name without directory separators: the
\* name up to its last dot, unless only dots precede that dot
RECURSIVE LastDot(_)
LastDot(s) ==
    IF s = <<>> THEN 0
    ELSE IF s[Len(s)] = "." THEN Len(s)
    ELSE LastDot(SubSeq(s, 1, Len(s) - 1))

splitext_base(name) ==
    LET d == LastDot(name)
    IN  IF d = 0 \/ \A i \in 1..(d - 1) : name[i] = "." THEN name
        ELSE SubSeq(name, 1, d - 1)

DotHeic == <<".", "h", "e", "i", "c">>
DotHeif == <<".", "h", "e", "i", "f">>
DotJpg == <<".", "j", "p", "g">>

\* the uploads: a file name and what happens to its bytes ("ok", or the
\* step that raises: Image.open on a corrupt file, or rgb.save)
FileNames == {<<>>, <<"a">> \o DotHeic, <<"B", ".", "H", "E", "I", "F">>,
              <<"c">> \o DotJpg, DotHeic}
Contents == {"ok", "corrupt", "unsavable"}
Uploads == [filename : FileNames, content : Contents]

\* the `continue` test of the loop
NotHeicName(filename) ==
    \/ filename = <<>>
    \/ ~(endswith(lower(filename), DotHeic) \/ endswith(lower(filename), DotHeif))

\* the request arrives: the two early redirects, then the empty archive
ImgRequest ==
    /\ ipc = "idle"
    /\ \E n \in 0..MaxFiles : \E files \in [1..n -> Uploads] :
        /\ heic_files' = files
        /\ IF files = <<>> \/ \A i \in 1..n : files[i].filename = <<>>
           THEN ipc' = "no_file" /\ UNCHANGED <<fi, zf, converted_count>>
           ELSE IF ~HEIF_AVAILABLE
           THEN ipc' = "no_library" /\ UNCHANGED <<fi, zf, converted_count>>
           ELSE ipc' = "loop" /\ fi' = 1 /\ zf' = <<>> /\ converted_count' = 0
    /\ UNCHANGED <<HEIF_AVAILABLE, convVars, dxfVars, forumVars>>

\* a loop body that counts the file before converting it
ImgFile_counting_attempts ==
    /\ ipc = "loop"
    /\ fi <= Len(heic_files)
    /\ LET heic == heic_files[fi]
       IN  IF NotHeicName(heic.filename)
           THEN UNCHANGED <<zf, converted_count>>
           ELSE IF heic.content = "ok"
           THEN /\ zf' = Append(zf, [name |-> splitext_base(heic.filename) \o DotJpg,
                                    from |-> fi])
                /\ converted_count' = converted_count + 1
           ELSE zf' = zf /\ converted_count' = converted_count + 1
    /\ fi' = fi + 1
    /\ UNCHANGED <<ipc, heic_files, HEIF_AVAILABLE, convVars, dxfVars, forumVars>>

\* one pass of `for heic in heic_files`
ImgFile ==
    /\ ipc = "loop"
    /\ fi <= Len(heic_files)
    /\ LET heic == heic_files[fi]
       IN  IF NotHeicName(heic.filename)
           THEN UNCHANGED <<zf, converted_count>>                 \* continue
           ELSE IF heic.content = "ok"
           THEN /\ zf' = Append(zf, [name |-> splitext_base(heic.filename) \o DotJpg,
                                    from |-> fi])
                /\ converted_count' = converted_count + 1
           ELSE UNCHANGED <<zf, converted_count>>                 \* except: pass
    /\ fi' = fi + 1
    /\ UNCHANGED <<ipc, heic_files, HEIF_AVAILABLE, convVars, dxfVars, forumVars>>

\* after the loop: the redirect when nothing converted, else send_file
ImgFinish ==
    /\ ipc = "loop"
    /\ fi > Len(heic_files)
    /\ ipc' = IF converted_count = 0 THEN "no_valid_input" ELSE "sent"
    /\ UNCHANGED <<heic_files, fi, zf, converted_count, HEIF_AVAILABLE,
                   convVars, dxfVars, forumVars>>

ImgNext == ImgRequest \/ ImgFile \/ ImgFinish

-----------------------------------------------------------------------------
(* Properties of the batch converter.                                      *)

\* the files among the first n that convert
Converts(f) == ~NotHeicName(f.filename) /\ f.content = "ok"
Converted(n) == {i \in 1..n : Converts(heic_files[i])}

InBatch == ipc \in {"loop", "no_valid_input", "sent"}

\* C8: the files are taken one after the other; a file that fails is skipped
\* and removes nothing; the counter, the number of archive entries and the
\* number of files converted so far agree, the entries being those files in
\* order; the batch always runs to its end, and ends in NoValidInput exactly
\* when the counter is 0, else with the archive.
C8_BestEffortBatch ==
    /\ InBatch =>
          /\ converted_count = Len(zf)
          /\ Len(zf) = Cardinality(Converted(fi - 1))
          /\ \A k \in 1..Len(zf) : zf[k].from \in Converted(fi - 1)
          /\ \A k \in 1..(Len(zf) - 1) : zf[k].from < zf[k + 1].from
    /\ ipc \in {"no_valid_input", "sent"} =>
          /\ fi = Len(heic_files) + 1
          /\ (ipc = "no_valid_input") <=> (converted_count = 0)
    /\ ipc \in {"no_file", "no_library"} => zf = <<>>

\* three files, the second corrupt: two entries, counter 2
C8_Witness ==
    /\ ipc = "sent"
    /\ Len(heic_files) = 3
    /\ Converts(heic_files[1]) /\ Converts(heic_files[3])
    /\ heic_files[2].content = "corrupt" /\ ~NotHeicName(heic_files[2].filename)
    /\ Len(zf) = 2 /\ converted_count = 2

-----------------------------------------------------------------------------
(* Forum: articles, comments, similar articles.                            *)

MAX_TAGS == 5
MAX_ARTICLE_LENGTH == 5000
MAX_COMMENT_LENGTH == 1000
SIMILAR_LIMIT == 6

MaxRows == 2       \* writes are tried while the two tables hold fewer rows
MaxTime == 2       \* datetime.utcnow() returns one of 1..MaxTime

Spam == <<"s", "p", "a", "m">>
Test == <<"t", "e", "s", "t">>
FORBIDDEN_WORDS == <<Spam, Test>>

\* Article and comment bodies are run-length encoded: a sequence of runs
\* [c, n], n >= 1 copies of the character c, neighbouring runs differing in c.
Run(c, n) == [c |-> c, n |-> n]

RECURSIVE lstrip_runs(_)
lstrip_runs(b) ==
    IF b # <<>> /\ Head(b).c \in Whitespace THEN lstrip_runs(Tail(b)) ELSE b

RECURSIVE rstrip_runs(_)
rstrip_runs(b) ==
    IF b # <<>> /\ b[Len(b)].c \in Whitespace
    THEN rstrip_runs(SubSeq(b, 1, Len(b) - 1))
    ELSE b

\* body.strip()
strip_runs(b) == rstrip_runs(lstrip_runs(b))

\* len(body)
RECURSIVE len_runs(_)
len_runs(b) == IF b = <<>> THEN 0 ELSE Head(b).n + len_runs(Tail(b))

\* a check that lets every body through
check_spam_content_off(body, max_len) == FALSE

\* is_spam of check_spam_content
check_spam_content(body, max_len) == len_runs(body) > max_len

\* a normalisation that forgets to lowercase
normalize_tags_keeping_case(tags_raw) == Parts(tags_raw)

\* [t.strip().lower() for t in tags_raw.split(',') if t.strip()]
normalize_tags(tags_raw) ==
    LET ps == Parts(tags_raw)
    IN  [i \in 1..Len(ps) |-> lower(ps[i])]

HasForbidden(tags) ==
    \E i \in 1..Len(tags), k \in 1..Len(FORBIDDEN_WORDS) :
        contains(lower(tags[i]), lower(FORBIDDEN_WORDS[k]))

Redirect(flash, message) == [kind |-> "redirect", flash |-> flash, message |-> message]

\* the answer of post_article_submit and the row it inserts (<<>> if none)
post_article_submit(f, now, next_id) ==
    LET title == strip(f.title)
        body == strip_runs(f.body)
        tags_raw == strip(f.tags)
        tags == normalize_tags(tags_raw)
    IN  IF Len(tags) > MAX_TAGS
        THEN [resp |-> Redirect("warning", "too many tags"), rows |-> <<>>]
        ELSE IF HasForbidden(tags)
        THEN [resp |-> Redirect("warning", "forbidden tag"), rows |-> <<>>]
        ELSE IF body = <<>>
        THEN [resp |-> Redirect("warning", "body required"), rows |-> <<>>]
        ELSE IF check_spam_content(body, MAX_ARTICLE_LENGTH)
        THEN [resp |-> Redirect("warning", "body too long"), rows |-> <<>>]
        ELSE [resp |-> Redirect("success", "posted"),
              rows |-> <<[id |-> next_id, title |-> title, body |-> body,
                          tags |-> join(tags, ","), created_at |-> now]>>]

\* the answer of post_comment_submit and the row it inserts (<<>> if none);
\* the connection never turns foreign_keys on, so the insert is not checked
\* against the articles table
post_comment_submit(article_id, f, now, next_id) ==
    LET body == strip_runs(f.comment_body)
    IN  IF body = <<>>
        THEN [resp |-> Redirect("warning", "comment required"), rows |-> <<>>]
        ELSE IF check_spam_content(body, MAX_COMMENT_LENGTH)
        THEN [resp |-> Redirect("warning", "comment too long"), rows |-> <<>>]
        ELSE [resp |-> Redirect("success", "commented"),
              rows |-> <<[id |-> next_id, article_id |-> article_id, body |-> body,
                          created_at |-> now]>>]

\* SQLite's  s LIKE pat : % is any run of characters, _ any one character,
\* letters compare without case
RECURSIVE like(_, _)
like(s, pat) ==
    IF pat = <<>> THEN s = <<>>
    ELSE IF Head(pat) = "%"
         THEN like(s, Tail(pat)) \/ (s # <<>> /\ like(Tail(s), pat))
    ELSE IF s = <<>> THEN FALSE
    ELSE /\ Head(pat) = "_" \/ LowerChar(Head(pat)) = LowerChar(Head(s))
         /\ like(Tail(s), Tail(pat))

\* f'%{t}%'
LikeParam(t) == <<"%">> \o t \o <<"%">>

\* ORDER BY created_at: rows of equal created_at stay in rowid order
RECURSIVE InsertDesc(_, _)
InsertDesc(sorted, row) ==
    IF sorted = <<>> THEN <<row>>
    ELSE IF Head(sorted).created_at >= row.created_at
         THEN <<Head(sorted)>> \o InsertDesc(Tail(sorted), row)
         ELSE <<row>> \o sorted

RECURSIVE OrderDesc(_)
OrderDesc(rows) ==
    IF rows = <<>> THEN <<>>
    ELSE InsertDesc(OrderDesc(SubSeq(rows, 1, Len(rows) - 1)), rows[Len(rows)])

RECURSIVE InsertAsc(_, _)
InsertAsc(sorted, row) ==
    IF sorted = <<>> THEN <<row>>
    ELSE IF Head(sorted).created_at <= row.created_at
         THEN <<Head(sorted)>> \o InsertAsc(Tail(sorted), row)
         ELSE <<row>> \o sorted

RECURSIVE OrderAsc(_)
OrderAsc(rows) ==
    IF rows = <<>> THEN <<>>
    ELSE InsertAsc(OrderAsc(SubSeq(rows, 1, Len(rows) - 1)), rows[Len(rows)])

Limit(rows, n) == SubSeq(rows, 1, IF Len(rows) < n THEN Len(rows) ELSE n)

\* the article page: the article, its comments, the similar articles
view_article(article_id) ==
    LET found == SelectSeq(articles, LAMBDA r : r.id = article_id)
    IN  IF found = <<>> THEN Redirect("warning", "article not found")
        ELSE
        LET article == found[1]
            tags == Parts(article.tags)
            matches(r) == /\ \E i \in 1..Len(tags) : like(lower(r.tags), LikeParam(tags[i]))
                          /\ r.id # article_id
            similar == IF article.tags # <<>> /\ tags # <<>>
                       THEN Limit(OrderDesc(SelectSeq(articles, matches)), SIMILAR_LIMIT)
                       ELSE <<>>
        IN  [kind |-> "article", article |-> article,
             comments |-> OrderAsc(SelectSeq(comments,
                                             LAMBDA c : c.article_id = article_id)),
             similar |-> similar]

\* the article list, filtered by ?tag=
forum(tag_arg) ==
    LET tag == lower(strip(tag_arg))
        hit(r) == like(lower(r.tags), LikeParam(tag))
    IN  [kind |-> "forum", tag |-> tag,
         articles |-> IF tag # <<>> THEN OrderDesc(SelectSeq(articles, hit))
                      ELSE OrderDesc(articles)]

Long(n) == <<Run("x", n)>>

Concrete == <<"c", "o", "n", "c", "r", "e", "t", "e">>
Asphalt == <<"a", "s", "p", "h", "a", "l", "t">>

\* tags as typed: none; one; two to be normalised; a LIKE wildcard; five;
\* six; two with forbidden words
NoTags == <<>>
OneTag == Concrete
TwoTags == <<" ", "C">> \o Tail(Concrete) \o <<" ", ",", ",", " ", "A", "S", "P", "H", "A", "L", "T">>
WildTag == <<"%">>
FiveTags == <<"a", ",", "b", ",", "c", ",", "d", ",", "e">>
SixTags == FiveTags \o <<",", "f">>
SpamTag == <<"a", ",", "x", "S", "P", "A", "M", "x">>
TestTag == <<"T", "e", "s", "t">>
TagInputs == {NoTags, OneTag, TwoTags, WildTag, FiveTags, SixTags, SpamTag, TestTag}

GoodBody == <<Run(" ", 1), Run("b", 1), Run("\n", 2)>>
BlankBody == <<Run(" ", 2), Run("\n", 1)>>
BodyInputs == {<<>>, BlankBody, GoodBody, Long(MAX_ARTICLE_LENGTH + 1)}

ArticleForm(title, body, tags) == [title |-> title, body |-> body, tags |-> tags]

ArticleForms ==
    {ArticleForm(<<" ", "T">>, GoodBody, t) : t \in TagInputs}
    \cup {ArticleForm(<<>>, b, OneTag) : b \in BodyInputs \ {GoodBody}}
    \cup {ArticleForm(<<>>, <<>>, SixTags)}

CommentForms ==
    {[comment_body |-> b] :
        b \in {<<>>, BlankBody, <<Run(" ", 1), Run("c", 1)>>,
               Long(MAX_COMMENT_LENGTH + 1)}}

ForumPostArticle ==
    /\ Len(articles) + Len(comments) < MaxRows
    /\ \E f \in ArticleForms, now \in 1..MaxTime :
        LET out == post_article_submit(f, now, Len(articles) + 1)
        IN  /\ articles' = articles \o out.rows
            /\ req' = [op |-> "post_article", form |-> f]
            /\ resp' = out.resp
    /\ UNCHANGED <<comments, convVars, dxfVars, imgVars>>

ForumPostComment ==
    /\ Len(articles) + Len(comments) < MaxRows
    /\ \E article_id \in 1..MaxRows, f \in CommentForms, now \in 1..MaxTime :
        LET out == post_comment_submit(article_id, f, now, Len(comments) + 1)
        IN  /\ comments' = comments \o out.rows
            /\ req' = [op |-> "post_comment", article_id |-> article_id, form |-> f]
            /\ resp' = out.resp
    /\ UNCHANGED <<articles, convVars, dxfVars, imgVars>>

ForumList ==
    /\ \E tag \in {<<>>, <<" ", "C", "o", "n">>, WildTag} :
        /\ req' = [op |-> "forum", tag |-> tag]
        /\ resp' = forum(tag)
    /\ UNCHANGED <<articles, comments, convVars, dxfVars, imgVars>>

ForumView ==
    /\ \E article_id \in 0..MaxRows :
        /\ req' = [op |-> "view_article", article_id |-> article_id]
        /\ resp' = view_article(article_id)
    /\ UNCHANGED <<articles, comments, convVars, dxfVars, imgVars>>

ForumNext == ForumPostArticle \/ ForumPostComment \/ ForumList \/ ForumView

-----------------------------------------------------------------------------
(* Properties of the forum.                                                *)

ArticleIds == {articles[i].id : i \in 1..Len(articles)}

\* C5: every stored comment's article_id is the id of a stored article (a
\* comment posted to an article that does not exist is refused and inserts
\* no row).
C5_CommentsReferToArticles ==
    \A i \in 1..Len(comments) : comments[i].article_id \in ArticleIds

IsWrite(r) == r # None /\ r.op \in {"post_article", "post_comment"}
IsRead(r) == r # None /\ r.op \in {"forum", "view_article"}

\* the validation failures of the two write requests
FailsValidation(r) ==
    IF r.op = "post_article"
    THEN LET body == strip_runs(r.form.body)
             tags == Parts(r.form.tags)
         IN  \/ body = <<>>
             \/ Len(tags) > MAX_TAGS
             \/ \E i \in 1..Len(tags) :
                    contains(lower(tags[i]), Spam) \/ contains(lower(tags[i]), Test)
             \/ len_runs(body) > MAX_ARTICLE_LENGTH
    ELSE LET body == strip_runs(r.form.comment_body)
         IN  body = <<>> \/ len_runs(body) > MAX_COMMENT_LENGTH

\* C6: a write request that fails validation is answered with a warning and
\* leaves both tables as they were.
C6_FailedWriteChangesNothing ==
    [][(IsWrite(req') /\ FailsValidation(req'))
         => (articles' = articles /\ comments' = comments /\ resp'.flash = "warning")]_vars

C6_Witness ==
    /\ Len(articles) = 1
    /\ IsWrite(req) /\ req.op = "post_article"
    /\ len_runs(strip_runs(req.form.body)) > MAX_ARTICLE_LENGTH
    /\ resp.flash = "warning"

\* the tags of a stored tag string
StoredTags(tags) == IF tags = <<>> THEN <<>> ELSE split(tags, ",")

\* C7: the similar articles of a viewed article A are at most 6 stored
\* articles other than A, each with a tag string that contains one of A's
\* tags, newest first; none when A has no tags; and with only
\* A(concrete,asphalt) and B(concrete) stored, B is among them.
C7_FindSimilar ==
    (req # None /\ req.op = "view_article" /\ resp.kind = "article") =>
        LET A == resp.article
            similar == resp.similar
            tagsA == StoredTags(A.tags)
        IN  /\ Len(similar) <= 6
            /\ \A i \in 1..Len(similar) :
                  /\ similar[i].id # A.id
                  /\ \E j \in 1..Len(articles) : articles[j] = similar[i]
                  /\ \E k \in 1..Len(tagsA) : contains(similar[i].tags, tagsA[k])
            /\ \A i \in 1..(Len(similar) - 1) :
                  similar[i].created_at >= similar[i + 1].created_at
            /\ tagsA = <<>> => similar = <<>>
            /\ (/\ Len(articles) = 2
                /\ A.tags = Concrete \o <<",">> \o Asphalt
                /\ \E j \in 1..2 : articles[j].tags = Concrete)
               => (Len(similar) = 1 /\ similar[1].tags = Concrete)

\* every stored article is what post_article_submit writes: a body, and at
\* most 5 comma-joined tags, each non-empty, trimmed, lowercase and free of
\* the forbidden words
ArticleNormalized(a) ==
    LET tags == StoredTags(a.tags)
    IN  /\ a.body # <<>>
        /\ Len(tags) <= MAX_TAGS
        /\ \A i \in 1..Len(tags) :
              /\ tags[i] # <<>>
              /\ strip(tags[i]) = tags[i]
              /\ lower(tags[i]) = tags[i]
              /\ ~contains(tags[i], Spam) /\ ~contains(tags[i], Test)

\* C10: every stored article is normalised, and no read request (the list,
\* the article page with its similar articles) changes a stored row.
C10_NormalizedAtWrite ==
    /\ [](\A i \in 1..Len(articles) : ArticleNormalized(articles[i]))
    /\ [][IsRead(req') => (articles' = articles /\ comments' = comments)]_vars

C10_Witness ==
    /\ Len(articles) = 2
    /\ articles[1].tags = Concrete \o <<",">> \o Asphalt
    /\ Len(StoredTags(articles[2].tags)) = MAX_TAGS
    /\ IsRead(req) /\ req.op = "view_article" /\ resp.kind = "article"
    /\ Len(resp.similar) = 0

-----------------------------------------------------------------------------
(* Properties of the coordinate parser and the DXF export.                 *)

Pt(label, x, y) == [label |-> label, x |-> x, y |-> y]

\* the point a line stands for, by the rule of the parser's contract: at
\* least two non-empty parts, the last two numeric; NoPoint otherwise
NoPoint == <<>>
LinePoint(raw_line) ==
    LET parts == Parts(raw_line)
        n == Len(parts)
    IN  IF n >= 2 /\ IsFloat(parts[n - 1]) /\ IsFloat(parts[n])
        THEN <<Pt(join(SubSeq(parts, 1, n - 2), ","), float(parts[n - 1]), float(parts[n]))>>
        ELSE NoPoint

RECURSIVE ExpectedPoints(_)
ExpectedPoints(lines) ==
    IF lines = <<>> THEN <<>>
    ELSE LinePoint(Head(lines)) \o ExpectedPoints(Tail(lines))

Parsed == dpc # "idle"

\* C3 as stated: the four lines "1,2", ",", "abc,2", "3,4,LBL" yield exactly
\* the two points {"", 1, 2} and {"LBL", 3, 4}.
C3_TwoPoints ==
    (Parsed /\ dform.coordinate_data = SampleMixed)
        => points = <<Pt(<<>>, 1, 2), Pt(<<"L", "B", "L">>, 3, 4)>>

\* C3 amended: the four lines yield exactly the one point {"", 1, 2}; the
\* line "3,4,LBL" is dropped as well, its last part not being a number.
C3_OnePoint ==
    (Parsed /\ dform.coordinate_data = SampleMixed) => points = <<Pt(<<>>, 1, 2)>>

C3_Witness ==
    /\ dpc = "sent"
    /\ dform.coordinate_data = SampleMixed
    /\ Len(sent.msp) = 1

\* C4: the parsed points are exactly, in input order, the points of the lines
\* of the text that have at least two non-empty parts of which the last two
\* are numbers (x the second-to-last, y the last, the label the comma-join of
\* what precedes); a failing line removes or alters no other line's point,
\* and the handler never fails while parsing.
C4_PerLineInOrder ==
    /\ Parsed => points = ExpectedPoints(splitlines(dform.coordinate_data))
    /\ dpc = "failed" => points # <<>>

C4_Witness ==
    /\ Parsed
    /\ points = <<Pt(<<>>, 1, 0 - 2), Pt(<<"a", " ", "b", ",", "c">>, 3, 4)>>
    /\ Len(splitlines(dform.coordinate_data)) = 4

IsMarker(e) == e.type = "POINT"
IsLabel(e) == e.type = "TEXT"

\* the modelspace the points call for
RECURSIVE ExpectedShapes(_, _)
ExpectedShapes(pts, layer) ==
    IF pts = <<>> THEN <<>>
    ELSE LET pt == Head(pts)
         IN  <<PointEntity(pt.x, pt.y, layer)>>
             \o (IF pt.label # <<>> THEN <<TextEntity(pt.label, layer, TRUE)>> ELSE <<>>)
             \o ExpectedShapes(Tail(pts), layer)

\* C9: the layer is in the document before any shape is; every shape carries
\* the requested layer; a returned drawing holds, for each parsed point in
\* order, one marker and a label exactly when the point has one, and is
\* returned only once every point is done; nothing is returned when no point
\* was parsed or a step raised.
C9_Export ==
    /\ doc.msp # <<>> => layer_name \in doc.layers
    /\ \A i \in 1..Len(doc.msp) : doc.msp[i].layer = layer_name
    /\ dpc = "shapes" => Len(SelectSeq(doc.msp, IsMarker)) = di - 1
    /\ dpc = "sent" =>
          /\ sent = doc
          /\ di = Len(points) + 1
          /\ sent.msp = ExpectedShapes(points, layer_name)
          /\ Len(SelectSeq(sent.msp, IsMarker)) = Len(points)
          /\ layer_name \in sent.layers
    /\ dpc # "sent" => sent = NoDoc
    /\ (Parsed /\ points = <<>>) => dpc = "redirect"

C9_Witness ==
    /\ dpc = "sent"
    /\ Len(points) = 2
    /\ points[1].label = <<>> /\ points[2].label # <<>>
    /\ layer_name = <<"L">>
    /\ Len(sent.msp) = 3

-----------------------------------------------------------------------------
(* Specifications: one per handler family; the others stay idle.           *)

InitConv ==
    /\ cpc = "input" /\ form \in Forms /\ first = None /\ result = None
    /\ dpc = "idle"
    /\ dform = [coordinate_data |-> <<>>, app_layer |-> <<>>]
    /\ points = <<>> /\ layer_name = <<>> /\ doc = NoDoc /\ di = 0 /\ sent = NoDoc
    /\ ipc = "idle" /\ heic_files = <<>> /\ fi = 0 /\ zf = <<>> /\ converted_count = 0
    /\ HEIF_AVAILABLE = TRUE
    /\ articles = <<>> /\ comments = <<>> /\ req = None /\ resp = None

SpecConv == InitConv /\ [][ConvNext]_vars

InitDxf ==
    /\ cpc = "input" /\ form = None /\ first = None /\ result = None
    /\ dpc = "idle"
    /\ dform = [coordinate_data |-> <<>>, app_layer |-> <<>>]
    /\ points = <<>> /\ layer_name = <<>> /\ doc = NoDoc /\ di = 0 /\ sent = NoDoc
    /\ ipc = "idle" /\ heic_files = <<>> /\ fi = 0 /\ zf = <<>> /\ converted_count = 0
    /\ HEIF_AVAILABLE = TRUE
    /\ articles = <<>> /\ comments = <<>> /\ req = None /\ resp = None

SpecDxf == InitDxf /\ [][DxfNext]_vars

InitImg ==
    /\ cpc = "input" /\ form = None /\ first = None /\ result = None
    /\ dpc = "idle"
    /\ dform = [coordinate_data |-> <<>>, app_layer |-> <<>>]
    /\ points = <<>> /\ layer_name = <<>> /\ doc = NoDoc /\ di = 0 /\ sent = NoDoc
    /\ ipc = "idle" /\ heic_files = <<>> /\ fi = 0 /\ zf = <<>> /\ converted_count = 0
    /\ HEIF_AVAILABLE \in BOOLEAN
    /\ articles = <<>> /\ comments = <<>> /\ req = None /\ resp = None

SpecImg == InitImg /\ [][ImgNext]_vars

InitForum ==
    /\ cpc = "input" /\ form = None /\ first = None /\ result = None
    /\ dpc = "idle"
    /\ dform = [coordinate_data |-> <<>>, app_layer |-> <<>>]
    /\ points = <<>> /\ layer_name = <<>> /\ doc = NoDoc /\ di = 0 /\ sent = NoDoc
    /\ ipc = "idle" /\ heic_files = <<>> /\ fi = 0 /\ zf = <<>> /\ converted_count = 0
    /\ HEIF_AVAILABLE = TRUE
    /\ articles = <<>> /\ comments = <<>> /\ req = None /\ resp = None

SpecForum == InitForum /\ [][ForumNext]_vars

====
